---- MODULE Spec2Model ----
(***************************************************************************)
(* Singly linked list of package linkedlist (linkedlist.go).               *)
(*                                                                         *)
(* The heap is a sequence of nodes; a node's address is its index and Nil  *)
(* (0) is the nil pointer.  A LinkedList object is a record head/tail/size *)
(* and the program owns up to three of them: l1 and l2, made by            *)
(* NewLinkedList, and the list IntercalarListas returns.  Every method is  *)
(* an operator from a memory m = [heap, lists] to the memory after the     *)
(* call, its outcome ("ok", "panic" for a nil dereference, "diverge" for a *)
(* loop that never ends) and its return value.  The actions apply the      *)
(* methods that change a list; String, Search, Get and Size change nothing *)
(* and are evaluated on the memory of each state.                          *)
(***************************************************************************)
EXTENDS Integers, Sequences, FiniteSets, TLC

\* ---------------------------------------------------------------- bounds
\* most calls made in one run
MaxCalls == 3
\* values stored are 1..MaxVal
MaxVal == 2
\* positions passed to InsertAt are -1..MaxPos
MaxPos == 2

Values == 1..MaxVal
Positions == (-1)..MaxPos

\* the nil pointer (of a node or of a list)
Nil == 0

\* ------------------------------------------------------------------ node
newNode(value) == [value |-> value, next |-> Nil]

\* the heap after allocating a node; its address is Len(heap) + 1
alloc(heap, value) == Append(heap, newNode(value))

NewLinkedList == [head |-> Nil, tail |-> Nil, size |-> 0]

\* the result of a call: the memory after it, how it ended, what it returned
Result(heap, lists, out, ret) ==
    [heap |-> heap, lists |-> lists, out |-> out, ret |-> ret]

\* a loop that has taken more steps than there are nodes is in a cycle of
\* next pointers and, mutating nothing, never leaves it
Fuel(heap) == Len(heap) + 1

\* ---------------------------------------------------------------- Append
\* Append linking the new node after the head instead of the tail
LLAppendWrongLink(m, l, value) ==
    LET L == m.lists[l]
        heap1 == alloc(m.heap, value)
        n == Len(heap1)
    IN  IF L.head = Nil
        THEN Result(heap1,
                    [m.lists EXCEPT ![l] = [head |-> n, tail |-> n, size |-> L.size + 1]],
                    "ok", Nil)
        ELSE IF L.tail = Nil
        THEN Result(heap1, m.lists, "panic", Nil)
        ELSE Result([heap1 EXCEPT ![L.head].next = n],
                    [m.lists EXCEPT ![l].tail = n, ![l].size = L.size + 1],
                    "ok", Nil)

LLAppend(m, l, value) ==
    LET L == m.lists[l]
        heap1 == alloc(m.heap, value)
        n == Len(heap1)
    IN  IF L.head = Nil
        THEN Result(heap1,
                    [m.lists EXCEPT ![l] = [head |-> n, tail |-> n, size |-> L.size + 1]],
                    "ok", Nil)
        ELSE IF L.tail = Nil
        THEN Result(heap1, m.lists, "panic", Nil)
        ELSE Result([heap1 EXCEPT ![L.tail].next = n],
                    [m.lists EXCEPT ![l].tail = n, ![l].size = L.size + 1],
                    "ok", Nil)

\* --------------------------------------------------------------- Prepend
\* Prepend forgetting to link the new node to the old head
PrependDropsList(m, l, value) ==
    LET L == m.lists[l]
        heap1 == alloc(m.heap, value)
        n == Len(heap1)
    IN  IF L.head = Nil
        THEN Result(heap1,
                    [m.lists EXCEPT ![l] = [head |-> n, tail |-> n, size |-> L.size + 1]],
                    "ok", Nil)
        ELSE Result(heap1,
                    [m.lists EXCEPT ![l].head = n, ![l].size = L.size + 1],
                    "ok", Nil)

Prepend(m, l, value) ==
    LET L == m.lists[l]
        heap1 == alloc(m.heap, value)
        n == Len(heap1)
    IN  IF L.head = Nil
        THEN Result(heap1,
                    [m.lists EXCEPT ![l] = [head |-> n, tail |-> n, size |-> L.size + 1]],
                    "ok", Nil)
        ELSE Result([heap1 EXCEPT ![n].next = L.head],
                    [m.lists EXCEPT ![l].head = n, ![l].size = L.size + 1],
                    "ok", Nil)

\* -------------------------------------------------------------- InsertAt
\* the traversal loop walking one node too far
RECURSIVE insertAtLoopTooFar(_, _, _)
insertAtLoopTooFar(heap, current, position) ==
    IF current # Nil /\ position > 0
    THEN LET r == insertAtLoopTooFar(heap, heap[current].next, position - 1)
         IN  [current |-> r.current, steps |-> r.steps + 1]
    ELSE [current |-> current, steps |-> 0]

\* the traversal loop: the node reached and the number of steps taken
RECURSIVE insertAtLoop(_, _, _)
insertAtLoop(heap, current, position) ==
    IF current # Nil /\ position > 1
    THEN LET r == insertAtLoop(heap, heap[current].next, position - 1)
         IN  [current |-> r.current, steps |-> r.steps + 1]
    ELSE [current |-> current, steps |-> 0]

InsertAt(m, l, value, position) ==
    IF position < 0
    THEN Result(m.heap, m.lists, "ok", Nil)
    ELSE LET heap1 == alloc(m.heap, value)
             n == Len(heap1)
         IN  IF position = 0
             THEN LET p == Prepend([heap |-> heap1, lists |-> m.lists], l, value)
                  IN  Result(p.heap,
                             [p.lists EXCEPT ![l].size = p.lists[l].size + 1],
                             "ok", Nil)
             ELSE LET w == insertAtLoop(heap1, m.lists[l].head, position)
                      lists1 == [m.lists EXCEPT ![l].size = m.lists[l].size + w.steps]
                  IN  IF w.current = Nil
                      THEN Result(heap1, lists1, "ok", Nil)
                      ELSE Result([heap1 EXCEPT ![n].next = heap1[w.current].next,
                                                ![w.current].next = n],
                                  lists1, "ok", Nil)

\* ---------------------------------------------------------------- Remove
\* the scan for the node before the first one holding value
RECURSIVE removeLoop(_, _, _, _)
removeLoop(heap, current, value, fuel) ==
    IF fuel = 0
    THEN [out |-> "diverge", found |-> FALSE, current |-> current]
    ELSE IF heap[current].next = Nil
    THEN [out |-> "ok", found |-> FALSE, current |-> current]
    ELSE IF heap[heap[current].next].value = value
    THEN [out |-> "ok", found |-> TRUE, current |-> current]
    ELSE removeLoop(heap, heap[current].next, value, fuel - 1)

\* Remove unlinking the rest of the chain with the node it removes
RemoveDropsRest(m, l, value) ==
    LET L == m.lists[l]
    IN  IF L.head = Nil
        THEN Result(m.heap, m.lists, "ok", Nil)
        ELSE IF m.heap[L.head].value = value
        THEN Result(m.heap,
                    [m.lists EXCEPT ![l].head = m.heap[L.head].next,
                                    ![l].size = L.size - 1],
                    "ok", Nil)
        ELSE LET w == removeLoop(m.heap, L.head, value, Fuel(m.heap))
             IN  IF w.out = "diverge"
                 THEN Result(m.heap, m.lists, "diverge", Nil)
                 ELSE IF w.found
                 THEN Result([m.heap EXCEPT ![w.current].next = Nil],
                             [m.lists EXCEPT ![l].size = L.size - 1],
                             "ok", Nil)
                 ELSE Result(m.heap, m.lists, "ok", Nil)

Remove(m, l, value) ==
    LET L == m.lists[l]
    IN  IF L.head = Nil
        THEN Result(m.heap, m.lists, "ok", Nil)
        ELSE IF m.heap[L.head].value = value
        THEN Result(m.heap,
                    [m.lists EXCEPT ![l].head = m.heap[L.head].next,
                                    ![l].size = L.size - 1],
                    "ok", Nil)
        ELSE LET w == removeLoop(m.heap, L.head, value, Fuel(m.heap))
             IN  IF w.out = "diverge"
                 THEN Result(m.heap, m.lists, "diverge", Nil)
                 ELSE IF w.found
                 THEN Result([m.heap EXCEPT ![w.current].next =
                                  m.heap[m.heap[w.current].next].next],
                             [m.lists EXCEPT ![l].size = L.size - 1],
                             "ok", Nil)
                 ELSE Result(m.heap, m.lists, "ok", Nil)

\* ---------------------------------------------------------------- String
\* fmt.Sprintf("%v", value) of an integer: its decimal digits
Sprintf(value) == ToString(value)

\* the loop of String: the text of the nodes from current on
RECURSIVE stringLoop(_, _, _)
stringLoop(heap, current, fuel) ==
    IF current = Nil
    THEN [out |-> "ok", ret |-> ""]
    ELSE IF fuel = 0
    THEN [out |-> "diverge", ret |-> ""]
    ELSE LET rest == stringLoop(heap, heap[current].next, fuel - 1)
             sep == IF heap[current].next # Nil THEN " " ELSE ""
         IN  [out |-> rest.out, ret |-> Sprintf(heap[current].value) \o sep \o rest.ret]

String(m, l) ==
    LET L == m.lists[l]
    IN  IF L.head = Nil
        THEN [out |-> "ok", ret |-> "[]"]
        ELSE LET w == stringLoop(m.heap, L.head, Fuel(m.heap))
             IN  IF w.out = "diverge"
                 THEN [out |-> "diverge", ret |-> ""]
                 ELSE [out |-> "ok", ret |-> "[" \o w.ret \o "]"]

\* ---------------------------------------------------------------- Search
\* the scan going on past a match, to the last node holding value
RECURSIVE searchLoopLastMatch(_, _, _, _, _)
searchLoopLastMatch(heap, current, value, position, fuel) ==
    IF current = Nil
    THEN [out |-> "ok", ret |-> -1]
    ELSE IF fuel = 0
    THEN [out |-> "diverge", ret |-> -1]
    ELSE LET rest == searchLoopLastMatch(heap, heap[current].next, value,
                                         position + 1, fuel - 1)
         IN  IF rest.out = "ok" /\ rest.ret = -1 /\ heap[current].value = value
             THEN [out |-> "ok", ret |-> position]
             ELSE rest

RECURSIVE searchLoop(_, _, _, _, _)
searchLoop(heap, current, value, position, fuel) ==
    IF current = Nil
    THEN [out |-> "ok", ret |-> -1]
    ELSE IF heap[current].value = value
    THEN [out |-> "ok", ret |-> position]
    ELSE IF fuel = 0
    THEN [out |-> "diverge", ret |-> -1]
    ELSE searchLoop(heap, heap[current].next, value, position + 1, fuel - 1)

Search(m, l, value) ==
    IF m.lists[l].head = Nil
    THEN [out |-> "ok", ret |-> -1]
    ELSE searchLoop(m.heap, m.lists[l].head, value, 0, Fuel(m.heap))

\* ------------------------------------------------------------------- Get
ErrEmpty == "lista vacia"
ErrPosition == "posicion invalida"
NoError == "nil"
\* the zero value of T (var t T)
ZeroValue == 0

\* getLoop stopping one node short
RECURSIVE getLoopStopsShort(_, _, _)
getLoopStopsShort(heap, current, position) ==
    IF current # Nil /\ position > 1
    THEN getLoopStopsShort(heap, heap[current].next, position - 1)
    ELSE current

RECURSIVE getLoop(_, _, _)
getLoop(heap, current, position) ==
    IF current # Nil /\ position > 0
    THEN getLoop(heap, heap[current].next, position - 1)
    ELSE current

Get(m, l, position) ==
    IF m.lists[l].head = Nil
    THEN [out |-> "ok", ret |-> [value |-> ZeroValue, err |-> ErrEmpty]]
    ELSE LET current == getLoop(m.heap, m.lists[l].head, position)
         IN  IF current = Nil
             THEN [out |-> "ok", ret |-> [value |-> ZeroValue, err |-> ErrPosition]]
             ELSE [out |-> "ok", ret |-> [value |-> m.heap[current].value, err |-> NoError]]

\* ------------------------------------------------------------------ Size
RECURSIVE sizeLoop(_, _, _, _)
sizeLoop(heap, current, position, fuel) ==
    IF current = Nil
    THEN [out |-> "ok", ret |-> position]
    ELSE IF fuel = 0
    THEN [out |-> "diverge", ret |-> 0]
    ELSE sizeLoop(heap, heap[current].next, position + 1, fuel - 1)

Size(m, l) ==
    IF m.lists[l].head = Nil
    THEN [out |-> "ok", ret |-> 0]
    ELSE sizeLoop(m.heap, m.lists[l].head, 0, Fuel(m.heap))

\* ------------------------------------------------------ ConcatenarListas
\* l1 and l2 are pointers to lists: Nil or the index of a list
ConcatenarListas(m, l1, l2) ==
    IF l1 = Nil
    THEN Result(m.heap, m.lists, "panic", Nil)
    ELSE IF m.lists[l1].head = Nil
    THEN Result(m.heap, m.lists, "ok", l2)
    ELSE IF l2 = Nil
    THEN Result(m.heap, m.lists, "panic", Nil)
    ELSE IF m.lists[l2].head = Nil
    THEN Result(m.heap, m.lists, "ok", l1)
    ELSE IF m.lists[l1].tail = Nil
    THEN Result(m.heap, m.lists, "panic", Nil)
    ELSE Result([m.heap EXCEPT ![m.lists[l1].tail].next = m.lists[l2].head],
                [m.lists EXCEPT ![l1].tail = m.lists[l2].tail,
                                ![l1].size = m.lists[l1].size + m.lists[l2].size],
                "ok", l1)

\* ------------------------------------------------------ IntercalarListas
\* the list IntercalarListas builds is the third list of the program
ResultList == 3

\* the first loop taking the value of the second list before that of the first
RECURSIVE intercalarBothSwapped(_, _, _, _)
intercalarBothSwapped(m, current1, current2, fuel) ==
    IF current1 # Nil /\ current2 # Nil
    THEN IF fuel = 0
         THEN [m |-> m, out |-> "diverge", current1 |-> current1, current2 |-> current2]
         ELSE LET a == LLAppend(m, ResultList, m.heap[current2].value)
                  b == LLAppend([heap |-> a.heap, lists |-> a.lists], ResultList,
                                m.heap[current1].value)
              IN  intercalarBothSwapped([heap |-> b.heap, lists |-> b.lists],
                                        m.heap[current1].next, m.heap[current2].next,
                                        fuel - 1)
    ELSE [m |-> m, out |-> "ok", current1 |-> current1, current2 |-> current2]

\* the first loop: one value of each list while both have nodes left
RECURSIVE intercalarBoth(_, _, _, _)
intercalarBoth(m, current1, current2, fuel) ==
    IF current1 # Nil /\ current2 # Nil
    THEN IF fuel = 0
         THEN [m |-> m, out |-> "diverge", current1 |-> current1, current2 |-> current2]
         ELSE LET a == LLAppend(m, ResultList, m.heap[current1].value)
                  b == LLAppend([heap |-> a.heap, lists |-> a.lists], ResultList,
                                m.heap[current2].value)
              IN  intercalarBoth([heap |-> b.heap, lists |-> b.lists],
                                 m.heap[current1].next, m.heap[current2].next, fuel - 1)
    ELSE [m |-> m, out |-> "ok", current1 |-> current1, current2 |-> current2]

\* the second and third loops: the nodes one list has left
RECURSIVE intercalarRest(_, _, _)
intercalarRest(m, current, fuel) ==
    IF current # Nil
    THEN IF fuel = 0
         THEN [m |-> m, out |-> "diverge"]
         ELSE LET a == LLAppend(m, ResultList, m.heap[current].value)
              IN  intercalarRest([heap |-> a.heap, lists |-> a.lists],
                                 m.heap[current].next, fuel - 1)
    ELSE [m |-> m, out |-> "ok"]

\* IntercalarListas handing out the nodes of l1 when l2 has none to add
IntercalarSharesNodes(m, l1, l2) ==
    IF l1 = Nil \/ l2 = Nil
    THEN Result(m.heap, m.lists, "ok", Nil)
    ELSE LET fresh == [i \in 1..ResultList |->
                          IF i = ResultList THEN NewLinkedList ELSE m.lists[i]]
             both == intercalarBoth([heap |-> m.heap, lists |-> fresh],
                                    m.lists[l1].head, m.lists[l2].head, Fuel(m.heap))
             rest1 == intercalarRest(both.m, both.current1, Fuel(m.heap))
             rest2 == intercalarRest(rest1.m, both.current2, Fuel(m.heap))
         IN  IF m.lists[l2].head = Nil
             THEN Result(m.heap, [fresh EXCEPT ![ResultList] = m.lists[l1]],
                         "ok", ResultList)
             ELSE IF both.out = "diverge" \/ rest1.out = "diverge" \/ rest2.out = "diverge"
             THEN Result(m.heap, m.lists, "diverge", Nil)
             ELSE Result(rest2.m.heap, rest2.m.lists, "ok", ResultList)

IntercalarListas(m, l1, l2) ==
    IF l1 = Nil \/ l2 = Nil
    THEN Result(m.heap, m.lists, "ok", Nil)
    ELSE LET fresh == [i \in 1..ResultList |->
                          IF i = ResultList THEN NewLinkedList ELSE m.lists[i]]
             both == intercalarBoth([heap |-> m.heap, lists |-> fresh],
                                    m.lists[l1].head, m.lists[l2].head, Fuel(m.heap))
             rest1 == intercalarRest(both.m, both.current1, Fuel(m.heap))
             rest2 == intercalarRest(rest1.m, both.current2, Fuel(m.heap))
         IN  IF both.out = "diverge" \/ rest1.out = "diverge" \/ rest2.out = "diverge"
             THEN Result(m.heap, m.lists, "diverge", Nil)
             ELSE Result(rest2.m.heap, rest2.m.lists, "ok", ResultList)

\* ---------------------------------------------------- garbage collection
\* Go reclaims the nodes no list reaches and a program cannot observe a
\* node's address, only which pointers are equal.  The memory is kept in the
\* normal form that names the live nodes 1, 2, ... in the order the lists
\* reach them (head chain, then tail chain, list by list).
Range(s) == {s[i] : i \in 1..Len(s)}

\* seen, followed by the nodes reached from a that are not in it yet
RECURSIVE visit(_, _, _)
visit(heap, a, seen) ==
    IF a = Nil \/ a \in Range(seen)
    THEN seen
    ELSE visit(heap, heap[a].next, Append(seen, a))

\* the nodes of the chain that starts at a, each once, in order
Chain(heap, a) == visit(heap, a, <<>>)

\* the chain that starts at a never reaches nil
Cyclic(heap, a) ==
    LET c == Chain(heap, a)
    IN  c # <<>> /\ heap[c[Len(c)]].next # Nil

RECURSIVE visitLists(_, _, _, _)
visitLists(heap, lists, l, seen) ==
    IF l > Len(lists)
    THEN seen
    ELSE visitLists(heap, lists, l + 1,
                    visit(heap, lists[l].tail, visit(heap, lists[l].head, seen)))

Collect(m) ==
    LET order == visitLists(m.heap, m.lists, 1, <<>>)
        name(a) == IF a = Nil THEN Nil ELSE CHOOSE i \in 1..Len(order) : order[i] = a
    IN  [heap |-> [i \in 1..Len(order) |->
                      [value |-> m.heap[order[i]].value,
                       next |-> name(m.heap[order[i]].next)]],
         lists |-> [l \in 1..Len(m.lists) |->
                      [head |-> name(m.lists[l].head),
                       tail |-> name(m.lists[l].tail),
                       size |-> m.lists[l].size]]]

\* ----------------------------------------------------------------- state
VARIABLES
    heap,      \* the live nodes
    lists,     \* the LinkedList objects: l1, l2 and, once built, the result list
    outcome,   \* how the last call ended: "ok", "panic" or "diverge"
    calls,     \* the number of calls made
    appended,  \* per list: the values appended, while Append is all it has seen
    prepended  \* per list: the values prepended, while Prepend is all it has seen

vars == <<heap, lists, outcome, calls, appended, prepended>>

mem == [heap |-> heap, lists |-> lists]

\* the lists l1 and l2 of the caller, and the pointers it can pass
Callers == {1, 2}
ListPtrs == {Nil} \cup Callers
Live == 1..Len(lists)

NoAppends == [pure |-> FALSE, vals |-> <<>>]

\* the record of a list that has seen only the one method so far
OnlyThat == [l \in 1..ResultList |->
                IF l \in Callers THEN [pure |-> TRUE, vals |-> <<>>] ELSE NoAppends]

\* the record once list l has seen another call
Spoilt(hist, l) == [hist EXCEPT ![l] = NoAppends]

Init ==
    /\ heap = <<>>
    /\ lists = <<NewLinkedList, NewLinkedList>>
    /\ outcome = "ok"
    /\ calls = 0
    /\ appended = OnlyThat
    /\ prepended = OnlyThat

\* a call is made while the program runs: a panic or an endless loop ends it
Apply(r, hist, phist) ==
    /\ outcome = "ok"
    /\ calls < MaxCalls
    /\ LET after == Collect([heap |-> r.heap, lists |-> r.lists])
       IN  /\ heap' = after.heap
           /\ lists' = after.lists
    /\ outcome' = r.out
    /\ calls' = calls + 1
    /\ appended' = hist
    /\ prepended' = phist

CallAppend(l, value) ==
    Apply(LLAppend(mem, l, value),
          [appended EXCEPT ![l] =
              IF @.pure THEN [pure |-> TRUE, vals |-> Append(@.vals, value)] ELSE @],
          Spoilt(prepended, l))

CallPrepend(l, value) ==
    Apply(Prepend(mem, l, value), [appended EXCEPT ![l] = NoAppends],
          [prepended EXCEPT ![l] =
              IF @.pure THEN [pure |-> TRUE, vals |-> Append(@.vals, value)] ELSE @])

CallInsertAt(l, value, position) ==
    Apply(InsertAt(mem, l, value, position), [appended EXCEPT ![l] = NoAppends],
          Spoilt(prepended, l))

CallRemove(l, value) ==
    Apply(Remove(mem, l, value), [appended EXCEPT ![l] = NoAppends],
          Spoilt(prepended, l))

CallConcatenarListas(l1, l2) ==
    Apply(ConcatenarListas(mem, l1, l2),
          [l \in 1..ResultList |-> IF l \in {l1, l2} THEN NoAppends ELSE appended[l]],
          [l \in 1..ResultList |-> IF l \in {l1, l2} THEN NoAppends ELSE prepended[l]])

CallIntercalarListas(l1, l2) ==
    Apply(IntercalarListas(mem, l1, l2), [appended EXCEPT ![ResultList] = NoAppends],
          prepended)

Next ==
    \/ \E l \in Live, value \in Values : CallAppend(l, value)
    \/ \E l \in Live, value \in Values : CallPrepend(l, value)
    \/ \E l \in Live, value \in Values, position \in Positions :
           CallInsertAt(l, value, position)
    \/ \E l \in Live, value \in Values : CallRemove(l, value)
    \/ \E l1 \in ListPtrs, l2 \in ListPtrs : CallConcatenarListas(l1, l2)
    \/ \E l1 \in ListPtrs, l2 \in ListPtrs : CallIntercalarListas(l1, l2)

Spec == Init /\ [][Next]_vars

\* the programs that only call the four methods that change one list
NextLists ==
    \/ \E l \in Live, value \in Values : CallAppend(l, value)
    \/ \E l \in Live, value \in Values : CallPrepend(l, value)
    \/ \E l \in Live, value \in Values, position \in Positions :
           CallInsertAt(l, value, position)
    \/ \E l \in Live, value \in Values : CallRemove(l, value)

SpecLists == Init /\ [][NextLists]_vars

\* ------------------------------------------------------------ vocabulary
\* the sequence of values a list holds: the values of the chain from its head
Held(m, l) ==
    LET c == Chain(m.heap, m.lists[l].head)
    IN  [i \in 1..Len(c) |-> m.heap[c[i]].value]

Acyclic(m, l) == ~Cyclic(m.heap, m.lists[l].head)

\* the memory a call leaves
After(r) == [heap |-> r.heap, lists |-> r.lists]

\* the text [v1 v2 ... vn] of a sequence of values
RECURSIVE Joined(_)
Joined(s) ==
    IF s = <<>> THEN ""
    ELSE IF Len(s) = 1 THEN ToString(s[1])
    ELSE Joined(SubSeq(s, 1, Len(s) - 1)) \o " " \o ToString(s[Len(s)])

Rendered(s) == "[" \o Joined(s) \o "]"

\* the first index (from 1) at which s holds v; 0 when it does not
FirstIndex(s, v) ==
    IF \E i \in 1..Len(s) : s[i] = v
    THEN CHOOSE i \in 1..Len(s) : s[i] = v /\ \A j \in 1..(i - 1) : s[j] # v
    ELSE 0

\* s without its first v
RemoveFirst(s, v) ==
    LET k == FirstIndex(s, v)
    IN  IF k = 0 THEN s ELSE SubSeq(s, 1, k - 1) \o SubSeq(s, k + 1, Len(s))

\* the positions worth asking a list of the memory about
AllPositions == (-1)..(Len(heap) + 1)

\* ------------------------------------------------------------------ C1
\* C1 as stated: on a list that has only seen Append calls, with values
\* v1..vn, String() is [v1 ... vn] and Search(vi) is i - 1 for every i.
C1_SearchReturnsInsertionIndex ==
    \A l \in Callers :
        appended[l].pure =>
            LET vals == appended[l].vals
            IN  /\ String(mem, l) = [out |-> "ok", ret |-> Rendered(vals)]
                /\ \A i \in 1..Len(vals) :
                       Search(mem, l, vals[i]) = [out |-> "ok", ret |-> i - 1]

\* C1 amended: on a list that has only seen Append calls, with values v1..vn,
\* String() is [v1 ... vn] and Search(vi) is the index of the first value
\* equal to vi, which is i - 1 when no earlier value equals vi.
C1_AppendKeepsOrder ==
    \A l \in Callers :
        appended[l].pure =>
            LET vals == appended[l].vals
            IN  /\ String(mem, l) = [out |-> "ok", ret |-> Rendered(vals)]
                /\ \A i \in 1..Len(vals) :
                       /\ Search(mem, l, vals[i]) =
                              [out |-> "ok", ret |-> FirstIndex(vals, vals[i]) - 1]
                       /\ (\A j \in 1..(i - 1) : vals[j] # vals[i]) =>
                              Search(mem, l, vals[i]).ret = i - 1

C1_Witness ==
    \E l \in Callers :
        /\ appended[l].pure
        /\ Len(appended[l].vals) = 3
        /\ appended[l].vals[1] # appended[l].vals[2]
        /\ appended[l].vals[3] = appended[l].vals[1]
        /\ String(mem, l).ret = Rendered(appended[l].vals)
        /\ Search(mem, l, appended[l].vals[2]).ret = 1
        /\ Search(mem, l, appended[l].vals[3]).ret = 0

\* ------------------------------------------------------------------ C2
\* C2: on a list holding n values, Get(i) with 0 <= i < n returns the i-th
\* value and no error; on an empty list Get fails with the empty-list error
\* at any position; on a non-empty list Get(i) with i >= n fails with the
\* invalid-position error.
C2_GetByPosition ==
    \A l \in Live :
        Acyclic(mem, l) =>
            \A position \in AllPositions :
                LET s == Held(mem, l)
                    g == Get(mem, l, position)
                IN  /\ g.out = "ok"
                    /\ s = <<>> => g.ret = [value |-> ZeroValue, err |-> ErrEmpty]
                    /\ (0 <= position /\ position < Len(s)) =>
                           g.ret = [value |-> s[position + 1], err |-> NoError]
                    /\ (s # <<>> /\ position >= Len(s)) =>
                           g.ret = [value |-> ZeroValue, err |-> ErrPosition]

C2_Witness ==
    \E l \in Live :
        /\ Len(Held(mem, l)) = 3
        /\ Held(mem, l)[2] # Held(mem, l)[3]
        /\ Get(mem, l, 2).ret = [value |-> Held(mem, l)[3], err |-> NoError]
        /\ Get(mem, l, 3).ret.err = ErrPosition

\* ------------------------------------------------------------------ C3
\* C3: Remove(v) on a list that holds v leaves the same sequence without its
\* first v, every other value in its place; on a list that does not hold v,
\* the empty list included, it leaves the sequence as it was.
C3_RemoveFirstOccurrence ==
    \A l \in Live, value \in Values :
        Acyclic(mem, l) =>
            LET r == Remove(mem, l, value)
            IN  /\ r.out = "ok"
                /\ Held(After(r), l) = RemoveFirst(Held(mem, l), value)
                /\ FirstIndex(Held(mem, l), value) = 0 =>
                       String(After(r), l) = String(mem, l)

C3_Witness ==
    \E l \in Live, value \in Values :
        LET s == Held(mem, l)
        IN  /\ Len(s) = 3
            /\ s[1] # value /\ s[2] = value /\ s[3] = value
            /\ Held(After(Remove(mem, l, value)), l) = <<s[1], value>>

\* the nodes a list points to: those of its chain and those its tail reaches
Nodes(m, l) ==
    Range(Chain(m.heap, m.lists[l].head)) \cup Range(Chain(m.heap, m.lists[l].tail))

Disjoint(m, l1, l2) == Nodes(m, l1) \cap Nodes(m, l2) = {}

Min(a, b) == IF a < b THEN a ELSE b

\* a1 b1 a2 b2 ... for as long as both sequences last, then what is left of
\* the longer one
Interleave(a, b) ==
    LET n == Min(Len(a), Len(b))
    IN  [k \in 1..(Len(a) + Len(b)) |->
            IF k <= 2 * n
            THEN IF k % 2 = 1 THEN a[(k + 1) \div 2] ELSE b[k \div 2]
            ELSE IF Len(a) > n THEN a[k - n] ELSE b[k - n]]

\* ------------------------------------------------------------------ C4
\* C4: for two distinct lists that share no node (as any two lists built by
\* Append, Prepend, InsertAt and Remove alone), ConcatenarListas(l1, l2)
\* returns a list whose sequence is that of l1 followed by that of l2; it is
\* l1, unchanged, when only l2 is empty and l2, unchanged, when l1 is empty.
C4_ConcatenationInOrder ==
    \A l1 \in Callers, l2 \in Callers :
        (l1 # l2 /\ Acyclic(mem, l1) /\ Acyclic(mem, l2) /\ Disjoint(mem, l1, l2)) =>
            LET r == ConcatenarListas(mem, l1, l2)
                a == Held(mem, l1)
                b == Held(mem, l2)
            IN  /\ r.out = "ok"
                /\ r.ret \in Callers
                /\ Acyclic(After(r), r.ret)
                /\ Held(After(r), r.ret) = a \o b
                /\ (b = <<>> /\ a # <<>>) => r.ret = l1
                /\ a = <<>> => r.ret = l2

\* ------------------------------------------------------------------ C5
\* C5: for lists l1 = a1..am and l2 = b1..bn, IntercalarListas(l1, l2)
\* returns a new list holding a1 b1 a2 b2 ... for min(m, n) pairs and then the
\* rest of the longer list, m + n values in all; with l1 or l2 nil it
\* returns nil.
C5_IntercalarAlternates ==
    \A l1 \in ListPtrs, l2 \in ListPtrs :
        LET r == IntercalarListas(mem, l1, l2)
        IN  IF l1 = Nil \/ l2 = Nil
            THEN r.out = "ok" /\ r.ret = Nil
            ELSE (Acyclic(mem, l1) /\ Acyclic(mem, l2)) =>
                     /\ r.out = "ok"
                     /\ r.ret = ResultList
                     /\ r.ret \notin {l1, l2}
                     /\ Acyclic(After(r), r.ret)
                     /\ Held(After(r), r.ret) = Interleave(Held(mem, l1), Held(mem, l2))
                     /\ Len(Held(After(r), r.ret)) = Len(Held(mem, l1)) + Len(Held(mem, l2))

C5_Witness ==
    \E l1 \in Callers, l2 \in Callers :
        LET a == Held(mem, l1)
            b == Held(mem, l2)
        IN  /\ Len(a) = 2 /\ Len(b) = 1
            /\ a[1] # b[1]
            /\ Held(After(IntercalarListas(mem, l1, l2)), ResultList) = <<a[1], b[1], a[2]>>
            /\ IntercalarListas(mem, Nil, l2).ret = Nil

\* ------------------------------------------------------------------ C6
\* C6, for a value the list does not hold yet: Append(v) followed by
\* Remove(v) gives the list the text it had before the Append.  (For a value
\* the list already holds, Remove takes the earlier one under any handling
\* of the tail.)
C6_AppendRemoveRoundTrip ==
    \A l \in Live, value \in Values :
        (Acyclic(mem, l) /\ FirstIndex(Held(mem, l), value) = 0) =>
            LET a == LLAppend(mem, l, value)
                r == Remove(After(a), l, value)
            IN  /\ a.out = "ok"
                /\ r.out = "ok"
                /\ String(After(r), l) = String(mem, l)

\* ------------------------------------------------------------------ C7
\* C7: no call with invalid input panics: InsertAt with a negative or too
\* large position, Remove and Search of a value the list does not hold,
\* ConcatenarListas and IntercalarListas with a nil list.
C7_InvalidInputNeverPanics ==
    /\ outcome # "panic"
    /\ \A l1 \in ListPtrs, l2 \in ListPtrs :
           (l1 = Nil \/ l2 = Nil) =>
               /\ ConcatenarListas(mem, l1, l2).out # "panic"
               /\ IntercalarListas(mem, l1, l2).out # "panic"
    /\ \A l \in Live, value \in Values :
           Acyclic(mem, l) =>
               /\ \A position \in AllPositions :
                      (position < 0 \/ position > Len(Held(mem, l))) =>
                          InsertAt(mem, l, value, position).out # "panic"
               /\ FirstIndex(Held(mem, l), value) = 0 =>
                      /\ Remove(mem, l, value).out # "panic"
                      /\ Search(mem, l, value) = [out |-> "ok", ret |-> -1]

\* ------------------------------------------------------------------ C8
\* C8: Get with a negative position on a non-empty list fails with the
\* invalid-position error and returns no value of the list.
C8_GetNegativeIsInvalid ==
    \A l \in Live, position \in AllPositions :
        (position < 0 /\ lists[l].head # Nil) =>
            Get(mem, l, position) =
                [out |-> "ok", ret |-> [value |-> ZeroValue, err |-> ErrPosition]]

\* ------------------------------------------------------------------ C9
\* C9: InsertAt with a negative position or one greater than the length of
\* the list changes nothing: the nodes, head, tail and the size field are
\* after the call what they were before it.
C9_InvalidInsertAtChangesNothing ==
    \A l \in Live, value \in Values, position \in AllPositions :
        (Acyclic(mem, l) /\ (position < 0 \/ position > Len(Held(mem, l)))) =>
            LET r == InsertAt(mem, l, value, position)
            IN  /\ r.out = "ok"
                /\ Collect(After(r)) = mem

\* ----------------------------------------------------------------- C10
\* the calls that change a list
Mutations(m, l) ==
    {LLAppend(m, l, value) : value \in Values}
        \cup {Prepend(m, l, value) : value \in Values}
        \cup {InsertAt(m, l, value, position) : value \in Values, position \in Positions}
        \cup {Remove(m, l, value) : value \in Values}

\* C10: IntercalarListas(l1, l2) leaves l1 and l2 as they were (nodes, head,
\* tail, size), the list it returns shares no node with them, and afterwards
\* no Append, Prepend, InsertAt or Remove on the returned list changes what
\* l1 or l2 render, nor one on l1 or l2 what the returned list renders.
C10_IntercalarCopies ==
    /\ \A l1 \in Callers, l2 \in Callers :
           (Acyclic(mem, l1) /\ Acyclic(mem, l2)) =>
               LET r == IntercalarListas(mem, l1, l2)
               IN  /\ r.out = "ok"
                   /\ \A l \in Callers : r.lists[l] = lists[l]
                   /\ \A a \in 1..Len(heap) : r.heap[a] = heap[a]
                   /\ Nodes(After(r), r.ret) \cap (1..Len(heap)) = {}
                   /\ \A l \in Callers : Disjoint(After(r), r.ret, l)
    /\ Len(lists) = ResultList =>
           /\ \A l \in Callers : Disjoint(mem, ResultList, l)
           /\ \A r \in Mutations(mem, ResultList), l \in Callers :
                  String(After(r), l) = String(mem, l)
           /\ \A l \in Callers :
                  \A r \in Mutations(mem, l) :
                      String(After(r), ResultList) = String(mem, ResultList)

C10_Witness ==
    /\ Len(lists) = ResultList
    /\ Len(Held(mem, ResultList)) = 2
    /\ Held(mem, 1) # <<>>
    /\ Held(mem, 2) # <<>>
    /\ \E value \in Values :
           LET r == Remove(mem, ResultList, value)
           IN  /\ Len(Held(After(r), ResultList)) = 1
               /\ String(After(r), 1) = String(mem, 1)
               /\ String(After(r), 2) = String(mem, 2)

\* ----------------------------------------------------------------- C11
\* C11: Search(v) is the index of the first value equal to v: when it is
\* i >= 0, Get(i) returns v with no error and no position before i holds v;
\* it is -1 exactly when the list does not hold v, so always on an empty list.
C11_SearchFindsFirst ==
    \A l \in Live, value \in Values :
        Acyclic(mem, l) =>
            LET s == Held(mem, l)
                r == Search(mem, l, value)
            IN  /\ r.out = "ok"
                /\ r.ret \in (-1)..(Len(s) - 1)
                /\ r.ret >= 0 =>
                       /\ Get(mem, l, r.ret).ret = [value |-> value, err |-> NoError]
                       /\ \A j \in 0..(r.ret - 1) : Get(mem, l, j).ret.value # value
                /\ r.ret = -1 <=> (\A i \in 1..Len(s) : s[i] # value)
                /\ s = <<>> => r.ret = -1

C11_Witness ==
    \E l \in Live, value \in Values :
        LET s == Held(mem, l)
        IN  /\ Len(s) = 3
            /\ s[1] # value /\ s[2] = value /\ s[3] = value
            /\ Search(mem, l, value).ret = 1
            /\ Search(mem, l, s[1]).ret = 0

\* ----------------------------------------------------------------- C12
Reverse(s) == [i \in 1..Len(s) |-> s[Len(s) + 1 - i]]

\* C12: a list that has only seen Prepend calls, with values v1..vn, renders
\* [vn ... v1]; and in any state Prepend(v) puts v at index 0 and every
\* value the list held one position later, in the same order.
C12_PrependPutsFirst ==
    /\ \A l \in Callers :
           prepended[l].pure =>
               String(mem, l) = [out |-> "ok", ret |-> Rendered(Reverse(prepended[l].vals))]
    /\ \A l \in Live, value \in Values :
           LET r == Prepend(mem, l, value)
           IN  /\ r.out = "ok"
               /\ Held(After(r), l) = <<value>> \o Held(mem, l)
               /\ Get(After(r), l, 0).ret = [value |-> value, err |-> NoError]
               /\ \A i \in 0..(Len(Held(mem, l)) - 1) :
                      Get(After(r), l, i + 1) = Get(mem, l, i)

C12_Witness ==
    \E l \in Callers, value \in Values :
        LET vals == prepended[l].vals
        IN  /\ prepended[l].pure
            /\ Len(vals) = 3
            /\ vals[1] # vals[3]
            /\ String(mem, l).ret = Rendered(<<vals[3], vals[2], vals[1]>>)
            /\ Held(After(Prepend(mem, l, value)), l) = <<value, vals[3], vals[2], vals[1]>>

\* ----------------------------------------------------------------- C13
\* the last node of the chain from the head of list l, nil on an empty list
LastNode(m, l) ==
    LET c == Chain(m.heap, m.lists[l].head)
    IN  IF c = <<>> THEN Nil ELSE c[Len(c)]

\* C13: in every state reached by Append, Prepend, InsertAt and Remove
\* calls, the tail of a non-empty list is the last node reachable from its
\* head and the next of that node is nil.
C13_TailIsLastNode ==
    \A l \in Live :
        lists[l].head # Nil =>
            /\ lists[l].tail = LastNode(mem, l)
            /\ heap[lists[l].tail].next = Nil

\* ----------------------------------------------------------------- C14
\* C14: in any state reached by Append, Prepend, InsertAt and Remove calls,
\* Append(v) makes v the last value of the traversed sequence, keeps every
\* earlier value in place and makes Size() one larger.
C14_AppendAddsLast ==
    \A l \in Live, value \in Values :
        LET r == LLAppend(mem, l, value)
        IN  /\ r.out = "ok"
            /\ Held(After(r), l) = Append(Held(mem, l), value)
            /\ Size(After(r), l).ret = Size(mem, l).ret + 1

\* ----------------------------------------------------------------- C15
\* C15: in every state reached by Append, Prepend, InsertAt, Remove and
\* ConcatenarListas calls, the size field of a list is the number of nodes
\* reachable from its head, which is what Size() returns.
C15_SizeFieldCountsNodes ==
    \A l \in Live :
        /\ lists[l].size = Len(Chain(heap, lists[l].head))
        /\ Acyclic(mem, l) => Size(mem, l) = [out |-> "ok", ret |-> lists[l].size]

\* ----------------------------------------------------------------- C16
\* C16: in every reachable state the head of a list is nil exactly when its
\* tail is nil.
C16_HeadNilIffTailNil ==
    \A l \in Live : lists[l].head = Nil <=> lists[l].tail = Nil

\* ----------------------------------------------------------------- C17
\* C17: in every reachable state, ConcatenarListas with the same list as
\* both arguments included, the chain from the head of every list ends in
\* nil: it has no cycle.
C17_ChainsEndInNil ==
    \A l \in Live : Acyclic(mem, l)

\* ----------------------------------------------------------------- C18
\* C18: in every reachable state each call of Size, String, Search, Get,
\* Remove, InsertAt and IntercalarListas returns after finitely many steps.
C18_EveryCallReturns ==
    \A l \in Live :
        /\ Size(mem, l).out # "diverge"
        /\ String(mem, l).out # "diverge"
        /\ \A value \in Values :
               /\ Search(mem, l, value).out # "diverge"
               /\ Remove(mem, l, value).out # "diverge"
               /\ \A position \in AllPositions :
                      InsertAt(mem, l, value, position).out # "diverge"
        /\ \A position \in AllPositions : Get(mem, l, position).out # "diverge"
        /\ \A l2 \in Live : IntercalarListas(mem, l, l2).out # "diverge"

\* ----------------------------------------------------------------- C19
\* C19: on a list holding n values, InsertAt(v, p) with 1 <= p <= n leaves
\* the values before index p where they were, v at index p (Get(p) returns
\* it), the values from index p on one index later in the same order, and
\* Size() equal to n + 1.
C19_InsertAtSplices ==
    \A l \in Live, value \in Values :
        Acyclic(mem, l) =>
            LET s == Held(mem, l)
                n == Len(s)
            IN  \A p \in 1..n :
                    LET r == InsertAt(mem, l, value, p)
                    IN  /\ r.out = "ok"
                        /\ Held(After(r), l) =
                               SubSeq(s, 1, p) \o <<value>> \o SubSeq(s, p + 1, n)
                        /\ Get(After(r), l, p).ret = [value |-> value, err |-> NoError]
                        /\ \A i \in 0..(p - 1) : Get(After(r), l, i) = Get(mem, l, i)
                        /\ \A i \in p..(n - 1) : Get(After(r), l, i + 1) = Get(mem, l, i)
                        /\ Size(After(r), l) = [out |-> "ok", ret |-> n + 1]

C19_Witness ==
    \E l \in Live, value \in Values :
        LET s == Held(mem, l)
        IN  /\ Acyclic(mem, l)
            /\ Len(s) = 3
            /\ s[1] # value /\ s[2] # value
            /\ Held(After(InsertAt(mem, l, value, 1)), l) = <<s[1], value, s[2], s[3]>>
            /\ Held(After(InsertAt(mem, l, value, 2)), l) = <<s[1], s[2], value, s[3]>>
            /\ Held(After(InsertAt(mem, l, value, 3)), l) = <<s[1], s[2], s[3], value>>

\* ----------------------------------------------------------------- C20
\* C20: from any reachable state InsertAt(v, 0) leaves the list as
\* Prepend(v) leaves it: the same values, head, tail and size field.
C20_InsertAtZeroIsPrepend ==
    \A l \in Live, value \in Values :
        LET i == Collect(After(InsertAt(mem, l, value, 0)))
            p == Collect(After(Prepend(mem, l, value)))
        IN  /\ Held(i, l) = Held(p, l)
            /\ i.lists[l].head = p.lists[l].head
            /\ i.lists[l].tail = p.lists[l].tail
            /\ i.lists[l].size = p.lists[l].size

====
